---- MODULE Spec2Model ----
(***************************************************************************)
(* Model of EvaluateService (src/src/evaluate/evaluate.service.ts): the    *)
(* grading pipeline evaluate() with its helpers, the workspace directory   *)
(* under temp-repos, and the clock read by Date.now().                     *)
(*                                                                         *)
(* A slot r holds one call of evaluate() from its start to the delivery of *)
(* its response or exception.  Every await of the code is the end of one   *)
(* action.  Spec has one call (one slot); SpecConc lets two calls overlap  *)
(* (two slots).                                                            *)
(***************************************************************************)
EXTENDS Integers, Sequences, FiniteSets, TLC

VARIABLES
    active,       \* the slots in which requests are served (fixed by Init)
    now,          \* the value Date.now() returns
    fs,           \* temp-repos: existing workspace path -> content of the directory
    groqApiKey,   \* whether GROQ_API_KEY is configured
    run           \* slot -> the locals of its call of evaluate()

vars == <<active, now, fs, groqApiKey, run>>

(***************************************************************************)
(* Bounds of the model.                                                    *)
(***************************************************************************)
MaxClock == 1

Slots == {1, 2}

(***************************************************************************)
(* Program constants.                                                      *)
(***************************************************************************)
maxScore == 20
TestPoints == 5
GatingCap == 5

(***************************************************************************)
(* Strings are sequences of one-character strings where the code takes     *)
(* them apart or puts them together.                                       *)
(***************************************************************************)
Null == <<>>

Digit == <<"0", "1", "2", "3", "4", "5", "6", "7", "8", "9">>

IsDigit(c) == \E i \in 1..10 : Digit[i] = c

DigitVal(c) == (CHOOSE i \in 1..10 : Digit[i] = c) - 1

\* String(n) for a non-negative integer n
RECURSIVE ToDigits(_)
ToDigits(n) == IF n < 10 THEN <<Digit[n + 1]>>
               ELSE ToDigits(n \div 10) \o <<Digit[(n % 10) + 1]>>

(***************************************************************************)
(* Locators.  parses: whether new URL(url) accepts the string; host: the   *)
(* labels of the host as written; segs: the path segments; slash: whether  *)
(* the string ends with "/".  The locators carry no port, query or         *)
(* fragment, and no segment contains the text github.com.                  *)
(***************************************************************************)
Loc(p, h, s, t) == [parses |-> p, host |-> h, segs |-> s, slash |-> t]

LocPlain    == Loc(TRUE, <<"github", "com">>, <<(<<"u">>), (<<"r">>)>>, FALSE)
LocWww      == Loc(TRUE, <<"www", "github", "com">>, <<(<<"u">>), (<<"r">>)>>, FALSE)
LocSlash    == Loc(TRUE, <<"github", "com">>, <<(<<"u">>), (<<"r">>)>>, TRUE)
LocUpper    == Loc(TRUE, <<"GitHub", "com">>, <<(<<"u">>)>>, FALSE)
LocOther    == Loc(TRUE, <<"example", "org">>, <<(<<"x">>), (<<"y">>)>>, FALSE)
LocSuffix   == Loc(TRUE, <<"github", "com", "evil", "org">>, <<(<<"u">>), (<<"r">>)>>, FALSE)
LocGarbage  == Loc(FALSE, <<"github", "com">>, <<(<<"u">>), (<<"r">>)>>, FALSE)

Locators == {LocPlain, LocWww, LocSlash, LocUpper, LocOther, LocSuffix, LocGarbage}

\* the URL parser lower-cases the host
LowerLabel(l) == CASE l = "GitHub" -> "github"
                   [] l = "COM" -> "com"
                   [] OTHER -> l

hostname(url) == [i \in 1..Len(url.host) |-> LowerLabel(url.host[i])]

\* faulty variant: accepts every host that starts with github.com
isValidGitHubUrlSuffix(url) ==
    /\ url.parses
    /\ Len(hostname(url)) >= 2
    /\ SubSeq(hostname(url), 1, 2) = <<"github", "com">>
       \/ hostname(url) = <<"www", "github", "com">>

isValidGitHubUrl(url) ==
    /\ url.parses
    /\ hostname(url) = <<"github", "com">> \/ hostname(url) = <<"www", "github", "com">>

\* /github\.com[/:]([^/]+)\/([^/]+)(?:\.git)?$/ on the string as written:
\* the host must end in github.com as written, and the path must be exactly
\* two segments with no "/" after them
RegexMatches(url) ==
    /\ Len(url.host) >= 2
    /\ SubSeq(url.host, Len(url.host) - 1, Len(url.host)) = <<"github", "com">>
    /\ Len(url.segs) = 2
    /\ ~url.slash

extractRepoName(url) ==
    IF RegexMatches(url)
    THEN url.segs[1] \o <<"-">> \o url.segs[2]
    ELSE <<"r", "e", "p", "o">>

\* `${repoName}-${Date.now()}` under tempDir
WorkspacePath(url, t) == extractRepoName(url) \o <<"-">> \o ToDigits(t)

(***************************************************************************)
(* The workspace directories.  A content says which of the files the       *)
(* pipeline looks at the directory holds: pubspec.yaml, and lib/main.dart  *)
(* (absent; a readable regular file; or special: there, but a directory, a *)
(* symbolic link or a file that cannot be read), the only .dart file under *)
(* lib/.                                                                   *)
(***************************************************************************)
Contents == [pubspec : BOOLEAN, mainDart : {"absent", "file", "special"}]

PartialContent == [pubspec |-> FALSE, mainDart |-> "absent"]

EmptyFs == [p \in {} |-> PartialContent]

pathExists(f, p) == p \in DOMAIN f

FsWrite(f, p, c) == [q \in (DOMAIN f) \cup {p} |-> IF q = p THEN c ELSE f[q]]

FsRemove(f, p) == [q \in (DOMAIN f) \ {p} |-> f[q]]

(***************************************************************************)
(* Texts are sequences of pieces, so that a template literal is the        *)
(* concatenation of its pieces.                                            *)
(***************************************************************************)
Text(s) == <<s>>

OrElse(a, b) == IF a = <<>> THEN b ELSE a

\* faulty variant: every entry carries the name of the first check
CheckResultSameName(n, p, m, sc) ==
    [name |-> "Clone Repository", passed |-> p, message |-> m, score |-> sc]

CheckResult(n, p, m, sc) == [name |-> n, passed |-> p, message |-> m, score |-> sc]

NoGroqEvaluation == [present |-> FALSE, score |-> 0, summary |-> <<>>]

\* faulty variant: the install flag and the build flag are exchanged
DetailsExchanged(c, f, p, b, t, g) ==
    [cloneSuccessful |-> c, filesValid |-> f, pubGetSuccessful |-> b,
     buildSuccessful |-> p, testsPassed |-> t, groqEvaluation |-> g]

Details(c, f, p, b, t, g) ==
    [cloneSuccessful |-> c, filesValid |-> f, pubGetSuccessful |-> p,
     buildSuccessful |-> b, testsPassed |-> t, groqEvaluation |-> g]

buildResponse(total, max, chk, details, feedback, summary) ==
    [totalScore |-> total, maxScore |-> max, checks |-> chk, feedback |-> feedback,
     summary |-> OrElse(summary, feedback), details |-> details]

(***************************************************************************)
(* checkRequiredFiles: c is the content of the workspace, present says     *)
(* whether the workspace directory still exists.                           *)
(***************************************************************************)
\* faulty variant: one of the two files is enough
checkRequiredFilesEither(present, c) ==
    LET pubspecExists == present /\ c.pubspec
        mainDartExists == present /\ c.mainDart # "absent"
    IN  IF ~pubspecExists /\ ~mainDartExists
        THEN [valid |-> FALSE, message |-> Text("pubspec.yaml and lib/main.dart are missing")]
        ELSE [valid |-> TRUE, message |-> <<>>]

checkRequiredFiles(present, c) ==
    LET pubspecExists == present /\ c.pubspec
        mainDartExists == present /\ c.mainDart # "absent"
    IN  IF ~pubspecExists /\ ~mainDartExists
        THEN [valid |-> FALSE, message |-> Text("pubspec.yaml and lib/main.dart are missing")]
        ELSE IF ~pubspecExists
        THEN [valid |-> FALSE, message |-> Text("pubspec.yaml is missing")]
        ELSE IF ~mainDartExists
        THEN [valid |-> FALSE, message |-> Text("lib/main.dart is missing")]
        ELSE [valid |-> TRUE, message |-> <<>>]

(***************************************************************************)
(* The toolchain commands.  An execution either throws (non-zero exit,     *)
(* timeout, missing working directory) or returns stdout and stderr, of    *)
(* which the model keeps the markers the code searches for.                *)
(***************************************************************************)
PubGetRuns == [threw : BOOLEAN, stderr : SUBSET {"Warning", "error"}]

runFlutterPubGet(o) ==
    IF o.threw
    THEN [success |-> FALSE, message |-> Text("Command failed: flutter pub get")]
    ELSE IF o.stderr # {} /\ "Warning" \notin o.stderr
    THEN [success |-> FALSE, message |-> Text("stderr")]
    ELSE [success |-> TRUE, message |-> Text("Dependencies installed successfully")]

AnalyzeRuns == [threw : BOOLEAN, stdoutError : BOOLEAN, stderrError : BOOLEAN,
                stdoutInfo : BOOLEAN, stderrInfo : BOOLEAN]

BuildRuns == [threw : BOOLEAN]

\* whether checkBuild runs the fallback command
buildAttempted(a) == a.threw

\* faulty variant: the stage fails as soon as flutter analyze throws
checkBuildNoFallback(a, b) ==
    IF ~a.threw
    THEN LET hasErrors == a.stderrError \/ a.stdoutError
         IN  IF hasErrors /\ ~a.stderrInfo /\ ~a.stdoutInfo
             THEN [success |-> FALSE, message |-> Text("Code contains errors and does not compile")]
             ELSE [success |-> TRUE, message |-> Text("Code compiles successfully")]
    ELSE [success |-> FALSE, message |-> Text("Command failed: flutter analyze")]

\* checkBuild: flutter analyze, and flutter build when analyze threw
checkBuild(a, b) ==
    IF ~a.threw
    THEN LET hasErrors == a.stderrError \/ a.stdoutError
         IN  IF hasErrors /\ ~a.stderrInfo /\ ~a.stdoutInfo
             THEN [success |-> FALSE, message |-> Text("Code contains errors and does not compile")]
             ELSE [success |-> TRUE, message |-> Text("Code compiles successfully")]
    ELSE IF ~b.threw
    THEN [success |-> TRUE, message |-> Text("Code compiles successfully")]
    ELSE [success |-> FALSE, message |-> Text("Command failed: flutter build")]

\* noTests: the message of the error thrown includes 'No tests found' or
\* 'No test file'; allPassed, plus, someFailed: stdout includes
\* 'All tests passed!', '+', 'Some tests failed'
TestRuns == [threw : BOOLEAN, noTests : BOOLEAN,
             allPassed : BOOLEAN, plus : BOOLEAN, someFailed : BOOLEAN]

runFlutterTest(o) ==
    IF ~o.threw
    THEN IF o.allPassed \/ (o.plus /\ ~o.someFailed)
         THEN [success |-> TRUE, message |-> Text("All tests passed")]
         ELSE [success |-> FALSE, message |-> Text("Tests failed or no tests found")]
    ELSE IF o.noTests
    THEN [success |-> FALSE, message |-> Text("No tests found")]
    ELSE [success |-> FALSE, message |-> Text("Command failed: flutter test")]

\* faulty variant: the points are given whatever the result
TestScoreAlways(t) == TestPoints

\* testScore of evaluate()
TestScore(t) == IF t.success THEN TestPoints ELSE 0

\* faulty variant: an entry that is not a regular file is collected too
collectLibFilesAnyEntry(present, c, walkThrows) ==
    IF ~present \/ c.mainDart = "absent"
    THEN 0
    ELSE IF walkThrows THEN 0
    ELSE 1

\* collectLibFiles: the number of entries returned; walkThrows: readdir fails
collectLibFiles(present, c, walkThrows) ==
    IF ~present \/ c.mainDart = "absent"
    THEN 0
    ELSE IF walkThrows THEN 0
    ELSE IF c.mainDart = "file" THEN 1 ELSE 0

(***************************************************************************)
(* The evaluator.  A reply of the endpoint: transport says whether the     *)
(* POST resolved; hasContent whether choices[0].message.content is there;  *)
(* fenced whether the content is wrapped in a markdown code fence; json    *)
(* what the content without its fence is (a JSON object, null, another     *)
(* JSON value, or no JSON); score the text String(parsed.score); summary   *)
(* what parsed.summary is; salvage the digits the two score patterns find  *)
(* in the raw content (Null: no match); lists what parsed.strengths and    *)
(* parsed.weaknesses are (arrays or not); recommendations what             *)
(* parsed.recommendations is; size whether the texts of the reply (or the   *)
(* error message of a failed POST) are short or long.  Exhaustion of        *)
(* memory or of the maximal string length is not modelled.                  *)
(***************************************************************************)
SummaryCap == 300
ItemCap == 150
ListCap == 5
RecommendationsCap == 200
SalvageCap == 200

\* the length of 'Evaluation failed: '
FailurePrefixLen == 19

\* faulty variant: the first argument is taken whatever the second
MinFirst(a, b) == a

\* Math.min
Min(a, b) == IF a < b THEN a ELSE b

Max(a, b) == IF a > b THEN a ELSE b

RECURSIVE SkipSpaces(_)
SkipSpaces(s) == IF s # <<>> /\ Head(s) = " " THEN SkipSpaces(Tail(s)) ELSE s

RECURSIVE DigitPrefix(_)
DigitPrefix(s) == IF s # <<>> /\ IsDigit(Head(s))
                  THEN <<Head(s)>> \o DigitPrefix(Tail(s))
                  ELSE <<>>

RECURSIVE DigitsValue(_)
DigitsValue(d) == IF d = <<>> THEN 0
                  ELSE 10 * DigitsValue(SubSeq(d, 1, Len(d) - 1)) + DigitVal(d[Len(d)])

NaN == [nan |-> TRUE, v |-> 0]

\* parseInt of a text: leading blanks, a sign, then the longest run of digits
parseInt(s) ==
    LET t == SkipSpaces(s)
        neg == t # <<>> /\ Head(t) = "-"
        u == IF t # <<>> /\ Head(t) \in {"-", "+"} THEN Tail(t) ELSE t
        d == DigitPrefix(u)
    IN  IF d = <<>> THEN NaN
        ELSE [nan |-> FALSE, v |-> IF neg THEN 0 - DigitsValue(d) ELSE DigitsValue(d)]

\* x || 0
OrZero(x) == IF x.nan \/ x.v = 0 THEN 0 ELSE x.v

\* faulty variant: the ceiling is taken one too low
ClampScoreBelow(x, maxAvailableScore) == Min(Max(x, 0), maxAvailableScore - 1)

\* faulty variant: no lower bound
ClampScoreNoFloor(x, maxAvailableScore) == Min(x, maxAvailableScore)

\* Math.min(Math.max(x, 0), maxAvailableScore)
ClampScore(x, maxAvailableScore) == Min(Max(x, 0), maxAvailableScore)

ScoreTexts == { <<"0">>, <<"1", "5">>, <<"1", "6">>, <<"9", "9", "9">>,
                <<"-", "3">>, <<"7", ".", "9">>, <<"1", "e", "+", "2", "1">>,
                <<"1", "2", "a", "b">>, <<"a", "b", "c">>,
                <<"u", "n", "d", "e", "f", "i", "n", "e", "d">> }

Undefined == <<"u", "n", "d", "e", "f", "i", "n", "e", "d">>

Reply(t, h, f, j, sc, su, sa) ==
    [transport |-> t, hasContent |-> h, fenced |-> f, json |-> j, score |-> sc,
     summary |-> su, salvage |-> sa, lists |-> "array", recommendations |-> "string",
     size |-> "short"]

NoReply == Reply("none", FALSE, FALSE, "invalid", Undefined, "missing", Null)

\* the lengths of the texts of a reply: the content, parsed.summary, the
\* items of parsed.strengths and parsed.weaknesses, parsed.recommendations,
\* and the message of the error of a failed POST
Sizes(reply) ==
    IF reply.size = "long"
    THEN [content |-> 5000, summary |-> 1000, items |-> <<500, 140, 500, 500, 500, 500, 500>>,
          recommendations |-> 500, error |-> 400]
    ELSE [content |-> 120, summary |-> 80, items |-> <<40, 40>>,
          recommendations |-> 60, error |-> 30]

BaseReplies ==
    {Reply(t, FALSE, FALSE, "invalid", Undefined, "missing", Null) :
        t \in {"network", "timeout", "status"}}
    \cup {Reply("ok", FALSE, FALSE, "invalid", Undefined, "missing", Null)}
    \cup {Reply("ok", TRUE, f, "object", sc, su, Null) :
            f \in BOOLEAN, sc \in ScoreTexts, su \in {"string", "missing", "nonstring"}}
    \cup {Reply("ok", TRUE, FALSE, j, Undefined, "missing", Null) : j \in {"null", "primitive"}}
    \cup {Reply("ok", TRUE, FALSE, "invalid", Undefined, "missing", sa) :
            sa \in {Null, <<"7">>, <<"9", "9">>}}

ShapeReplies ==
    LET good == Reply("ok", TRUE, FALSE, "object", <<"1", "5">>, "string", Null)
    IN  {[good EXCEPT !.lists = "other"],
         [good EXCEPT !.recommendations = "missing"],
         [good EXCEPT !.recommendations = "nonstring"],
         [good EXCEPT !.size = "long"],
         [good EXCEPT !.json = "notText"],
         [Reply("ok", TRUE, FALSE, "invalid", Undefined, "missing", <<"7">>) EXCEPT !.size = "long"]}
        \cup {[Reply(t, FALSE, FALSE, "invalid", Undefined, "missing", Null) EXCEPT !.size = "long"] :
                t \in {"network", "status"}}

Replies == BaseReplies \cup ShapeReplies

\* s.substring(0, n) of a text of length len
substring(len, n) == Min(len, n)

\* a.slice(0, n)
slice(a, n) == SubSeq(a, 1, Min(Len(a), n))

\* result.replace(/```json\n?/g, '').replace(/```\n?/g, '').trim()
StripFences(reply) == [reply EXCEPT !.fenced = FALSE]

\* whether JSON.parse accepts the text
JsonParses(reply) == ~reply.fenced /\ reply.json # "invalid"

GroqResult(sc, su) == [score |-> sc, summary |-> su]

\* faulty variant: a failed call is given the whole budget
GroqFailureFull(msg, maxAvailableScore) ==
    GroqResult(maxAvailableScore, <<"Evaluation failed: ", msg>>)

\* the catch block of evaluateWithGroq
GroqFailure(msg, maxAvailableScore) == GroqResult(0, <<"Evaluation failed: ", msg>>)

\* faulty variant: the credential is never looked at
GroqKeyMissingNever(key) == FALSE

\* !groqApiKey: evaluateWithGroq throws InternalServerErrorException
GroqKeyMissing(key) == ~key

\* the object evaluateWithGroq resolves to, with the lengths of its texts;
\* raises: the promise is rejected instead
Shaped(res, sl, items, rl) ==
    [score |-> res.score, summary |-> res.summary, summaryLen |-> sl,
     strengths |-> items, weaknesses |-> items, recommendationsLen |-> rl,
     raises |-> FALSE]

BodyThrew(msg, len) ==
    [threw |-> TRUE, message |-> msg, messageLen |-> len,
     result |-> Shaped(GroqResult(0, <<>>), 0, <<>>, 0)]

BodyReturned(res) == [threw |-> FALSE, message |-> "", messageLen |-> 0, result |-> res]

\* the try block of evaluateWithGroq: what it returns, or the error it throws
GroqBody(reply, maxAvailableScore) ==
    IF reply.transport # "ok"
    THEN BodyThrew(reply.transport, Sizes(reply).error)
    ELSE IF ~reply.hasContent
    THEN BodyThrew("No response from Groq API", 25)
    ELSE IF reply.json = "notText"
    THEN BodyThrew("result.match is not a function", 30)
    ELSE IF ~JsonParses(StripFences(reply))
    THEN LET extractedScore == IF reply.salvage = Null THEN 0
                               ELSE OrZero(parseInt(reply.salvage))
         IN  BodyReturned(Shaped(
                 GroqResult(ClampScore(extractedScore, maxAvailableScore), Text("raw content")),
                 substring(Sizes(reply).content, SalvageCap), <<>>, 0))
    ELSE IF reply.json = "null"
    THEN BodyThrew("Cannot read properties of null", 30)
    ELSE LET isObject == reply.json = "object"
             scoreText == IF isObject THEN reply.score ELSE Undefined
             summaryIs == IF isObject THEN reply.summary ELSE "missing"
             recIs == IF isObject THEN reply.recommendations ELSE "missing"
             listsAre == IF isObject THEN reply.lists ELSE "other"
             score == ClampScore(OrZero(parseInt(scoreText)), maxAvailableScore)
             items == IF listsAre = "array"
                      THEN slice([i \in 1..Len(Sizes(reply).items) |->
                                    substring(Sizes(reply).items[i], ItemCap)], ListCap)
                      ELSE <<>>
             recLen == IF recIs = "string"
                       THEN substring(Sizes(reply).recommendations, RecommendationsCap)
                       ELSE 0
         IN  IF summaryIs = "nonstring" \/ recIs = "nonstring"
             THEN BodyThrew("substring is not a function", 27)
             ELSE IF summaryIs = "missing"
             THEN BodyReturned(Shaped(GroqResult(score, Text("No summary provided")),
                                      substring(19, SummaryCap), items, recLen))
             ELSE BodyReturned(Shaped(GroqResult(score, Text("parsed summary")),
                                      substring(Sizes(reply).summary, SummaryCap), items, recLen))

\* faulty variant: the try block has no catch
evaluateWithGroqNoCatch(reply, maxAvailableScore) ==
    LET body == GroqBody(reply, maxAvailableScore)
    IN  IF body.threw
        THEN [Shaped(GroqFailure(body.message, maxAvailableScore),
                     FailurePrefixLen + body.messageLen, <<>>, 0) EXCEPT !.raises = TRUE]
        ELSE body.result

\* evaluateWithGroq from the POST on: the try block and its catch
evaluateWithGroq(reply, maxAvailableScore) ==
    LET body == GroqBody(reply, maxAvailableScore)
    IN  IF body.threw
        THEN Shaped(GroqFailure(body.message, maxAvailableScore),
                    FailurePrefixLen + body.messageLen, <<>>, 0)
        ELSE body.result

(***************************************************************************)
(* The call of evaluate() in a slot.                                       *)
(***************************************************************************)
NoUrl == Loc(FALSE, <<>>, <<>>, FALSE)

NoResponse == buildResponse(0, 0, <<>>, Details(FALSE, FALSE, FALSE, FALSE, FALSE, NoGroqEvaluation),
                            <<>>, <<>>)

NoOutcome == [kind |-> "none", response |-> NoResponse, message |-> <<>>]

Returned(resp) == [kind |-> "response", response |-> resp, message |-> <<>>]

Thrown(k, msg) == [kind |-> k, response |-> NoResponse, message |-> msg]

\* raised: the exception that reached the catch block of evaluate()
NoException == [kind |-> "none", message |-> <<>>]

\* lastExec: the commands of the stage that resolved last, with what they
\* produced (stderr of flutter pub get; the output of flutter analyze and
\* whether flutter build threw)
NoAnalyze ==
    [threw |-> FALSE, stdoutError |-> FALSE, stderrError |-> FALSE,
     stdoutInfo |-> FALSE, stderrInfo |-> FALSE]

NoExec ==
    [cmd |-> "none", threw |-> FALSE, stderr |-> {}, analyze |-> NoAnalyze,
     buildThrew |-> FALSE]

IdleRun ==
    [pc |-> "idle", repoUrl |-> NoUrl, clonePath |-> Null, repoPath |-> Null,
     checks |-> <<>>, totalScore |-> 0,
     testResult |-> [success |-> FALSE, message |-> <<>>],
     libFiles |-> 0,
     groq |-> [remainingScore |-> 0, transport |-> "none", hasContent |-> FALSE,
               score |-> 0, summary |-> <<>>, reply |-> NoReply,
               result |-> Shaped(GroqResult(0, <<>>), 0, <<>>, 0)],
     outcome |-> NoOutcome, log |-> <<>>, cleanup |-> "none",
     raised |-> NoException, lastExec |-> NoExec]

\* with two overlapping calls the inputs are drawn from fewer values
Narrow == Cardinality(active) > 1

UrlInputs == IF Narrow THEN {LocPlain, LocUpper, LocOther} ELSE Locators

ContentInputs ==
    IF Narrow
    THEN {c \in Contents : c.pubspec \/ c.mainDart = "absent"}
    ELSE Contents

ReplyInputs ==
    IF Narrow
    THEN {Reply("network", FALSE, FALSE, "invalid", Undefined, "missing", Null),
          Reply("ok", TRUE, FALSE, "object", <<"1", "6">>, "string", Null)}
    ELSE Replies

TestInputs ==
    IF Narrow
    THEN {o \in TestRuns : ~o.noTests /\ ~o.plus /\ ~o.someFailed}
    ELSE TestRuns

\* faulty variant: the finally block never removes anything
NeedsCleanupNever(path) == FALSE

\* if (repoPath) of the finally block
NeedsCleanup(path) == path # Null

\* the return or throw of evaluate(): the finally block runs next, and it
\* awaits only when there is a workspace to remove
Finished(rr, out) ==
    [rr EXCEPT !.outcome = out,
               !.pc = IF NeedsCleanup(rr.repoPath) THEN "finally" ELSE "done"]

\* faulty variant: the catch block wraps every exception
CaughtWrapsAll(rr, kind, msg) ==
    Finished(rr, Thrown("InternalServerErrorException",
                        <<"Evaluation failed: ">> \o OrElse(msg, Text("Unknown error"))))

\* the catch block of evaluate(): known exceptions as they are, others wrapped
Caught(rr, kind, msg) ==
    IF kind \in {"BadRequestException", "InternalServerErrorException"}
    THEN Finished(rr, Thrown(kind, msg))
    ELSE Finished(rr, Thrown("InternalServerErrorException",
                             <<"Evaluation failed: ">> \o OrElse(msg, Text("Unknown error"))))

\* an exception of the given kind is thrown inside the try block of evaluate()
Throw(rr, kind, msg) ==
    Caught([rr EXCEPT !.raised = [kind |-> kind, message |-> msg]], kind, msg)

\* faulty variant: a failed clone is answered with the gating cap
CloneFailedResponseCapped(chk) ==
    buildResponse(GatingCap, maxScore, chk,
                  Details(FALSE, FALSE, FALSE, FALSE, FALSE, NoGroqEvaluation),
                  Text("Repository cloning failed. Score: 0/20"), <<>>)

CloneFailedResponse(chk) ==
    buildResponse(0, maxScore, chk,
                  Details(FALSE, FALSE, FALSE, FALSE, FALSE, NoGroqEvaluation),
                  Text("Repository cloning failed. Score: 0/20"), <<>>)

\* cloneRepository returned null
CloneFailed(rr) ==
    LET chk == Append(rr.checks, CheckResult("Clone Repository", FALSE,
                                             Text("Failed to clone repository"), 0))
    IN  Finished([rr EXCEPT !.checks = chk], Returned(CloneFailedResponse(chk)))

\* faulty variant: a gating failure is answered with the full score
GatingResponseFull(chk, pubGetOk) ==
    buildResponse(maxScore, maxScore, chk,
                  Details(TRUE, TRUE, pubGetOk, FALSE, FALSE, NoGroqEvaluation),
                  IF pubGetOk THEN Text("App does not compile. Maximum score: 5/20")
                  ELSE Text("Dependencies installation failed. Maximum score: 5/20"), <<>>)

\* the response to a failed install (pubGetOk false) or build (pubGetOk true)
GatingResponse(chk, pubGetOk) ==
    buildResponse(GatingCap, maxScore, chk,
                  Details(TRUE, TRUE, pubGetOk, FALSE, FALSE, NoGroqEvaluation),
                  IF pubGetOk THEN Text("App does not compile. Maximum score: 5/20")
                  ELSE Text("Dependencies installation failed. Maximum score: 5/20"), <<>>)

Set(r, rr) == run' = [run EXCEPT ![r] = rr]

\* evaluate() up to the first await: the URL check, then cloneRepository
\* up to fs.pathExists
Start(r) ==
    /\ r \in active
    /\ run[r].pc = "idle"
    /\ \E url \in UrlInputs :
        LET rr == [run[r] EXCEPT !.repoUrl = url, !.log = <<"isValidGitHubUrl">>]
        IN  IF ~isValidGitHubUrl(url)
            THEN Set(r, Throw(rr, "BadRequestException", Text("Invalid GitHub repository URL")))
            ELSE Set(r, [rr EXCEPT !.clonePath = WorkspacePath(url, now),
                                   !.log = @ \o <<"cloneRepository", "fs.pathExists">>,
                                   !.pc = "clone_exists"])
    /\ UNCHANGED <<active, now, fs, groqApiKey>>

\* cloneRepository: fs.pathExists(repoPath) resolves
ClonePathExists(r) ==
    /\ run[r].pc = "clone_exists"
    /\ IF pathExists(fs, run[r].clonePath)
       THEN Set(r, [run[r] EXCEPT !.pc = "clone_remove",
                                  !.log = Append(@, "cloneRepository:fs.remove")])
       ELSE Set(r, [run[r] EXCEPT !.pc = "clone_git", !.log = Append(@, "git.clone")])
    /\ UNCHANGED <<active, now, fs, groqApiKey>>

\* cloneRepository: fs.remove(repoPath) of a directory found in the way
CloneRemove(r) ==
    /\ run[r].pc = "clone_remove"
    /\ \/ /\ fs' = FsRemove(fs, run[r].clonePath)
          /\ Set(r, [run[r] EXCEPT !.pc = "clone_git", !.log = Append(@, "git.clone")])
       \/ /\ fs' = fs
          /\ Set(r, CloneFailed(run[r]))
    /\ UNCHANGED <<active, now, groqApiKey>>

\* cloneRepository: git.clone resolves or rejects; evaluate() goes on to
\* checkRequiredFiles.  git refuses a destination that exists.
CloneGit(r) ==
    /\ run[r].pc = "clone_git"
    /\ \/ /\ ~pathExists(fs, run[r].clonePath)
          /\ \E c \in ContentInputs :
                fs' = FsWrite(fs, run[r].clonePath, c)
          /\ Set(r, [run[r] EXCEPT
                        !.repoPath = run[r].clonePath,
                        !.checks = Append(@, CheckResult("Clone Repository", TRUE,
                                          Text("Repository cloned successfully"), 0)),
                        !.log = Append(@, "checkRequiredFiles"),
                        !.pc = "files"])
       \/ /\ \E leftover \in BOOLEAN :
                fs' = IF leftover /\ ~pathExists(fs, run[r].clonePath)
                      THEN FsWrite(fs, run[r].clonePath, PartialContent)
                      ELSE fs
          /\ Set(r, CloneFailed(run[r]))
    /\ UNCHANGED <<active, now, groqApiKey>>

WorkspacePresent(r) == pathExists(fs, run[r].repoPath)

WorkspaceContent(r) == IF WorkspacePresent(r) THEN fs[run[r].repoPath] ELSE PartialContent

\* checkRequiredFiles resolves
CheckFiles(r) ==
    /\ run[r].pc = "files"
    /\ LET filesValid == checkRequiredFiles(WorkspacePresent(r), WorkspaceContent(r))
       IN  IF ~filesValid.valid
           THEN LET chk == Append(run[r].checks,
                                  CheckResult("Required Files Check", FALSE, filesValid.message, 0))
                IN  Set(r, Finished([run[r] EXCEPT !.checks = chk],
                        Returned(buildResponse(0, maxScore, chk,
                            Details(TRUE, FALSE, FALSE, FALSE, FALSE, NoGroqEvaluation),
                            OrElse(filesValid.message, Text("Required files missing. Score: 0/20")),
                            <<>>))))
           ELSE Set(r, [run[r] EXCEPT
                        !.checks = Append(@, CheckResult("Required Files Check", TRUE,
                                          Text("pubspec.yaml and lib/main.dart exist"), 0)),
                        !.log = Append(@, "runFlutterPubGet"),
                        !.pc = "pubget"])
    /\ UNCHANGED <<active, now, fs, groqApiKey>>

\* runFlutterPubGet resolves
PubGet(r) ==
    /\ run[r].pc = "pubget"
    /\ \E o \in PubGetRuns :
        /\ ~WorkspacePresent(r) => o.threw
        /\ o.threw => o.stderr = {}
        /\ LET pubGetResult == runFlutterPubGet(o)
               ex == [NoExec EXCEPT !.cmd = "flutter pub get", !.threw = o.threw,
                                    !.stderr = o.stderr]
           IN  IF ~pubGetResult.success
               THEN LET chk == Append(run[r].checks,
                                      CheckResult("Flutter Pub Get", FALSE, pubGetResult.message, 0))
                    IN  Set(r, Finished([run[r] EXCEPT !.checks = chk, !.lastExec = ex],
                                        Returned(GatingResponse(chk, FALSE))))
               ELSE Set(r, [run[r] EXCEPT
                            !.lastExec = ex,
                            !.checks = Append(@, CheckResult("Flutter Pub Get", TRUE,
                                              Text("Dependencies installed successfully"), 0)),
                            !.log = Append(@, "checkBuild"),
                            !.pc = "build"])
    /\ UNCHANGED <<active, now, fs, groqApiKey>>

\* checkBuild resolves: flutter analyze, and flutter build when analyze threw
CheckBuild(r) ==
    /\ run[r].pc = "build"
    /\ \E a \in AnalyzeRuns, b \in BuildRuns :
        /\ ~WorkspacePresent(r) => a.threw /\ b.threw
        /\ ~buildAttempted(a) => ~b.threw
        /\ a.threw => a = [NoAnalyze EXCEPT !.threw = TRUE]
        /\ LET buildResult == checkBuild(a, b)
               ex == [NoExec EXCEPT !.cmd = "flutter analyze", !.threw = a.threw,
                                    !.analyze = a, !.buildThrew = b.threw]
               lg == IF buildAttempted(a) THEN Append(run[r].log, "flutter build")
                     ELSE run[r].log
           IN  IF ~buildResult.success
               THEN LET chk == Append(run[r].checks,
                                      CheckResult("Build Check", FALSE, buildResult.message, 0))
                    IN  Set(r, Finished([run[r] EXCEPT !.checks = chk, !.log = lg,
                                                       !.lastExec = ex],
                                        Returned(GatingResponse(chk, TRUE))))
               ELSE Set(r, [run[r] EXCEPT
                            !.lastExec = ex,
                            !.checks = Append(@, CheckResult("Build Check", TRUE,
                                              Text("App compiles successfully"), 0)),
                            !.log = Append(lg, "runFlutterTest"),
                            !.pc = "test"])
    /\ UNCHANGED <<active, now, fs, groqApiKey>>

\* runFlutterTest resolves; evaluate() goes on to collectLibFiles
Test(r) ==
    /\ run[r].pc = "test"
    /\ \E o \in TestInputs :
        /\ ~WorkspacePresent(r) => o.threw
        /\ ~o.threw => ~o.noTests
        /\ o.threw => ~o.allPassed /\ ~o.plus /\ ~o.someFailed
        /\ LET res == runFlutterTest(o)
               testScore == TestScore(res)
           IN       Set(r, [run[r] EXCEPT
                            !.lastExec = [NoExec EXCEPT !.cmd = "flutter test", !.threw = o.threw],
                            !.testResult = res,
                            !.totalScore = @ + testScore,
                            !.checks = Append(@,
                                IF res.success
                                THEN CheckResult("Flutter Test", TRUE,
                                                 OrElse(res.message, Text("Tests passed")), testScore)
                                ELSE CheckResult("Flutter Test", FALSE,
                                                 OrElse(res.message, Text("Tests failed or no tests found")), 0)),
                            !.log = Append(@, "collectLibFiles"),
                            !.pc = "collect"])
    /\ UNCHANGED <<active, now, fs, groqApiKey>>

\* collectLibFiles resolves; evaluate() returns when nothing was collected
\* and otherwise calls evaluateWithGroq, which reads the credential and posts
Collect(r) ==
    /\ run[r].pc = "collect"
    /\ \E walkThrows \in BOOLEAN :
        LET n == collectLibFiles(WorkspacePresent(r), WorkspaceContent(r), walkThrows)
            rr == [run[r] EXCEPT !.libFiles = n]
        IN  IF n = 0
            THEN Set(r, Finished(rr,
                    Returned(buildResponse(rr.totalScore, maxScore, rr.checks,
                        Details(TRUE, TRUE, TRUE, TRUE, rr.testResult.success, NoGroqEvaluation),
                        <<"Evaluation completed. Score: ">> \o ToDigits(rr.totalScore) \o <<"/20">>,
                        <<>>))))
            ELSE LET called == [rr EXCEPT !.groq.remainingScore = maxScore - rr.totalScore,
                                          !.log = @ \o <<"evaluateWithGroq", "configService.get">>]
                 IN  IF GroqKeyMissing(groqApiKey)
                     THEN Set(r, Throw(called, "InternalServerErrorException",
                                 Text("Groq API key not configured. Please set GROQ_API_KEY environment variable.")))
                     ELSE Set(r, [called EXCEPT !.log = Append(@, "axios.post"), !.pc = "groq"])
    /\ UNCHANGED <<active, now, fs, groqApiKey>>

\* evaluateWithGroq resolves; evaluate() builds the response
Groq(r) ==
    /\ run[r].pc = "groq"
    /\ \E reply \in ReplyInputs :
        LET remainingScore == run[r].groq.remainingScore
            groqResult == evaluateWithGroq(reply, remainingScore)
            groqScore == Min(groqResult.score, remainingScore)
            total == run[r].totalScore + groqScore
            chk == Append(run[r].checks,
                          CheckResult("Groq Code Evaluation", TRUE, Text("Code evaluated by Groq"), groqScore))
            rr == [run[r] EXCEPT !.groq.transport = reply.transport,
                                 !.groq.hasContent = reply.hasContent,
                                 !.groq.score = groqResult.score,
                                 !.groq.summary = groqResult.summary,
                                 !.groq.reply = reply,
                                 !.groq.result = groqResult,
                                 !.totalScore = total,
                                 !.checks = chk]
        IN  IF groqResult.raises
            THEN Set(r, Throw([run[r] EXCEPT !.groq.transport = reply.transport,
                                             !.groq.hasContent = reply.hasContent,
                                             !.groq.reply = reply],
                              "TypeError", Tail(groqResult.summary)))
            ELSE
            Set(r, Finished(rr,
                Returned(buildResponse(total, maxScore, chk,
                    Details(TRUE, TRUE, TRUE, TRUE, rr.testResult.success,
                            [present |-> TRUE, score |-> groqScore, summary |-> groqResult.summary]),
                    groqResult.summary, groqResult.summary))))
    /\ UNCHANGED <<active, now, fs, groqApiKey>>

\* faulty variant: a rejected fs.remove is not caught and replaces the outcome
CleanupThrows(r) ==
    /\ run[r].pc = "finally"
    /\ \/ /\ fs' = FsRemove(fs, run[r].repoPath)
          /\ Set(r, [run[r] EXCEPT !.cleanup = "removed", !.pc = "done",
                                   !.log = Append(@, "finally:fs.remove")])
       \/ /\ fs' = fs
          /\ Set(r, [run[r] EXCEPT !.cleanup = "failed", !.pc = "done",
                                   !.outcome = Thrown("Error", Text("EBUSY")),
                                   !.log = Append(@, "finally:fs.remove")])
    /\ UNCHANGED <<active, now, groqApiKey>>

\* the finally block: fs.remove(repoPath) resolves, or rejects and is logged
Cleanup(r) ==
    /\ run[r].pc = "finally"
    /\ \/ /\ fs' = FsRemove(fs, run[r].repoPath)
          /\ Set(r, [run[r] EXCEPT !.cleanup = "removed", !.pc = "done",
                                   !.log = Append(@, "finally:fs.remove")])
       \/ /\ fs' = fs
          /\ Set(r, [run[r] EXCEPT !.cleanup = "failed", !.pc = "done",
                                   !.log = Append(@, "finally:fs.remove")])
    /\ UNCHANGED <<active, now, groqApiKey>>

\* the clock advances
Tick ==
    /\ now < MaxClock
    /\ now' = now + 1
    /\ UNCHANGED <<active, fs, groqApiKey, run>>

\* the constructor keeps what temp-repos holds: a directory left by an
\* earlier call may be there
StalePath == WorkspacePath(LocPlain, 0)

InitCommon ==
    /\ now = 0
    /\ groqApiKey \in BOOLEAN
    /\ run = [r \in Slots |-> IdleRun]

\* one call of evaluate()
Init ==
    /\ InitCommon
    /\ fs \in {EmptyFs, FsWrite(EmptyFs, StalePath, PartialContent)}
    /\ active = {1}

\* two calls of evaluate() may overlap
InitConc ==
    /\ InitCommon
    /\ fs = EmptyFs
    /\ active = Slots

Next ==
    \/ \E r \in Slots :
        \/ Start(r)
        \/ ClonePathExists(r)
        \/ CloneRemove(r)
        \/ CloneGit(r)
        \/ CheckFiles(r)
        \/ PubGet(r)
        \/ CheckBuild(r)
        \/ Test(r)
        \/ Collect(r)
        \/ Groq(r)
        \/ Cleanup(r)
    \/ Tick

Spec == Init /\ [][Next]_vars

(***************************************************************************)
(* A stage raising into evaluate().  The stages of the program swallow      *)
(* their own errors, so only the locator check and the credential check     *)
(* raise; Raise lets any stage awaited outside cloneRepository reject with  *)
(* an exception of any kind, which is what the catch block of evaluate()    *)
(* is written for.                                                          *)
(***************************************************************************)
ExceptionKinds == {"BadRequestException", "InternalServerErrorException", "Error", "TypeError"}

RaisePoints == {"files", "pubget", "build", "test", "collect", "groq"}

Raise(r) ==
    /\ run[r].pc \in RaisePoints
    /\ \E kind \in ExceptionKinds, msg \in {<<>>, Text("stage error")} :
        Set(r, Throw(run[r], kind, msg))
    /\ UNCHANGED <<active, now, fs, groqApiKey>>

NextRaise ==
    \/ Next
    \/ \E r \in Slots : Raise(r)

SpecRaise == Init /\ [][NextRaise]_vars

(***************************************************************************)
(* Progress.  TimeoutOf gives the timeout, in milliseconds, passed to each  *)
(* operation that leaves the process (0: none is passed).  An awaited       *)
(* operation with a timeout resolves or is ended by it; one without may     *)
(* never resolve.  The operations on the local file system are taken to     *)
(* resolve.                                                                 *)
(***************************************************************************)
TimeoutOf ==
    [clone |-> 0, pubget |-> 60000, analyze |-> 120000, build |-> 180000,
     test |-> 120000, post |-> 60000]

Expires(op) == TimeoutOf[op] > 0

CloneGitEnds(r) == Expires("clone") /\ CloneGit(r)

PubGetEnds(r) == Expires("pubget") /\ PubGet(r)

CheckBuildEnds(r) == Expires("analyze") /\ Expires("build") /\ CheckBuild(r)

TestEnds(r) == Expires("test") /\ Test(r)

GroqEnds(r) == Expires("post") /\ Groq(r)

\* a call takes the step it is waiting for; at each position of a call only
\* one of these is enabled
Proceeds(r) ==
    \/ ClonePathExists(r)
    \/ CloneRemove(r)
    \/ CloneGitEnds(r)
    \/ CheckFiles(r)
    \/ PubGetEnds(r)
    \/ CheckBuildEnds(r)
    \/ TestEnds(r)
    \/ Collect(r)
    \/ GroqEnds(r)
    \/ Cleanup(r)

Fairness == \A r \in Slots : WF_vars(Proceeds(r))

SpecLive == Init /\ [][Next]_vars /\ Fairness

SpecConc == InitConc /\ [][Next]_vars

(***************************************************************************)
(* Properties.                                                             *)
(***************************************************************************)
Has(lg, e) == \E i \in 1..Len(lg) : lg[i] = e

Ended(r) == run[r].pc \in {"finally", "done"}

Responded(r) == Ended(r) /\ run[r].outcome.kind = "response"

AllowedHosts == {<<"github", "com">>, <<"www", "github", "com">>}

InAllowList(url) == url.parses /\ hostname(url) \in AllowedHosts

StagesAfterClone == {"checkRequiredFiles", "runFlutterPubGet", "checkBuild", "flutter build",
                     "runFlutterTest", "collectLibFiles", "evaluateWithGroq", "axios.post"}

StagesAfterFiles == StagesAfterClone \ {"checkRequiredFiles"}

HasCheck(r, n) == \E i \in 1..Len(run[r].checks) : run[r].checks[i].name = n

FailedCheck(r, n) ==
    \E i \in 1..Len(run[r].checks) : run[r].checks[i].name = n /\ ~run[r].checks[i].passed

\* C1: a call whose locator does not parse as a URL, or whose host (as the
\* URL parser reports it) is neither github.com nor www.github.com, ends with
\* BadRequestException at once: nothing but the URL check was called, no
\* workspace path was computed, and temp-repos is as it was.
C1_InvalidLocatorRejected ==
    \A r \in Slots :
        run[r].pc # "idle" /\ ~InAllowList(run[r].repoUrl) =>
            /\ run[r].pc = "done"
            /\ run[r].outcome.kind = "BadRequestException"
            /\ run[r].log = <<"isValidGitHubUrl">>
            /\ run[r].clonePath = Null
            /\ run[r].repoPath = Null
            /\ run[r].cleanup = "none"
            /\ DOMAIN fs \subseteq {StalePath}

C1_Witness ==
    \E r \in Slots :
        /\ run[r].pc = "done"
        /\ run[r].repoUrl \in {LocOther, LocGarbage}
        /\ run[r].outcome.kind = "BadRequestException"

\* C2: when cloneRepository returns null, the call returns a response with
\* totalScore 0, exactly one check (Clone Repository, not passed, score 0)
\* and details.cloneSuccessful false, and no later stage was started.
C2_CloneFailureHalts ==
    \A r \in Slots :
        Ended(r) /\ run[r].clonePath # Null /\ run[r].repoPath = Null =>
            /\ run[r].outcome.kind = "response"
            /\ run[r].outcome.response.totalScore = 0
            /\ Len(run[r].outcome.response.checks) = 1
            /\ run[r].outcome.response.checks[1].name = "Clone Repository"
            /\ ~run[r].outcome.response.checks[1].passed
            /\ run[r].outcome.response.checks[1].score = 0
            /\ ~run[r].outcome.response.details.cloneSuccessful
            /\ \A e \in StagesAfterClone : ~Has(run[r].log, e)

C2_Witness ==
    \E r \in Slots :
        /\ run[r].pc = "done"
        /\ run[r].clonePath # Null
        /\ run[r].repoPath = Null
        /\ Has(run[r].log, "git.clone")
        /\ run[r].outcome.response.totalScore = 0

\* the message checkRequiredFiles must give for a content
ExpectedFilesMessage(c) ==
    IF ~c.pubspec /\ c.mainDart = "absent"
    THEN Text("pubspec.yaml and lib/main.dart are missing")
    ELSE IF ~c.pubspec THEN Text("pubspec.yaml is missing")
    ELSE Text("lib/main.dart is missing")

\* C3: the Required Files Check passes only if pubspec.yaml and lib/main.dart
\* are both there; when it fails the call returns totalScore 0, no later
\* stage was started, and the message of the check is the one of the three
\* messages that names the missing file or files.
C3_StructuralFailure ==
    \A r \in Slots :
        Len(run[r].checks) >= 2 =>
            LET k == run[r].checks[2]
                c == WorkspaceContent(r)
            IN  /\ k.name = "Required Files Check"
                /\ WorkspacePresent(r) =>
                      /\ k.passed <=> (c.pubspec /\ c.mainDart # "absent")
                      /\ ~k.passed => k.message = ExpectedFilesMessage(c)
                /\ ~k.passed =>
                      /\ Responded(r)
                      /\ run[r].outcome.response.totalScore = 0
                      /\ run[r].outcome.response.checks = run[r].checks
                      /\ Len(run[r].checks) = 2
                      /\ ~run[r].outcome.response.details.filesValid
                      /\ \A e \in StagesAfterFiles : ~Has(run[r].log, e)

C3_Witness ==
    \E r \in Slots :
        /\ run[r].pc = "finally"
        /\ WorkspacePresent(r)
        /\ WorkspaceContent(r).pubspec
        /\ WorkspaceContent(r).mainDart = "absent"
        /\ Len(run[r].checks) = 2
        /\ run[r].checks[2].message = Text("lib/main.dart is missing")
        /\ run[r].outcome.response.totalScore = 0

\* C4: when the install check or the build check fails, the call returns at
\* once with totalScore at most 5; runFlutterTest and evaluateWithGroq are
\* never called and the checks hold neither a Flutter Test nor a Groq Code
\* Evaluation entry.
C4_GatingFailure ==
    \A r \in Slots :
        FailedCheck(r, "Flutter Pub Get") \/ FailedCheck(r, "Build Check") =>
            /\ Responded(r)
            /\ run[r].outcome.response.totalScore <= 5
            /\ run[r].outcome.response.totalScore >= 0
            /\ run[r].outcome.response.checks = run[r].checks
            /\ ~run[r].checks[Len(run[r].checks)].passed
            /\ ~Has(run[r].log, "runFlutterTest")
            /\ ~Has(run[r].log, "collectLibFiles")
            /\ ~Has(run[r].log, "evaluateWithGroq")
            /\ ~Has(run[r].log, "axios.post")
            /\ ~HasCheck(r, "Flutter Test")
            /\ ~HasCheck(r, "Groq Code Evaluation")

C4_Witness ==
    \E r \in Slots :
        /\ run[r].pc = "done"
        /\ FailedCheck(r, "Build Check")
        /\ Has(run[r].log, "flutter build")
        /\ run[r].outcome.response.totalScore = 5

\* the Flutter Test check failed after the Build Check passed
TestFailedAfterBuild(r) ==
    /\ Len(run[r].checks) >= 5
    /\ run[r].checks[4].name = "Build Check"
    /\ run[r].checks[4].passed
    /\ run[r].checks[5].name = "Flutter Test"
    /\ ~run[r].checks[5].passed

\* C5 as stated: whenever the build succeeded and the tests failed, the test
\* stage contributes 0 and the call that has ended has run the quality
\* evaluation.
C5_Original ==
    \A r \in Slots :
        TestFailedAfterBuild(r) /\ run[r].pc = "done" =>
            /\ run[r].checks[5].score = 0
            /\ Has(run[r].log, "evaluateWithGroq")

\* C5, amended: when the build succeeded and the tests failed, the test stage
\* contributes 0 (the score so far is what the quality evaluation added, if
\* anything), the call does not stop at the test stage but goes on to
\* collectLibFiles, and once the collector has returned, evaluateWithGroq is
\* called exactly when at least one file was collected.
C5_TestFailureNotGating ==
    \A r \in Slots :
        TestFailedAfterBuild(r) =>
            /\ run[r].checks[5].score = 0
            /\ run[r].totalScore =
                  (IF Len(run[r].checks) >= 6 THEN run[r].checks[6].score ELSE 0)
            /\ Has(run[r].log, "collectLibFiles")
            /\ run[r].pc # "collect" =>
                  (Has(run[r].log, "evaluateWithGroq") <=> run[r].libFiles > 0)
            /\ Responded(r) /\ run[r].libFiles = 0 =>
                  run[r].outcome.response.totalScore = 0

C5_Witness ==
    \E r \in Slots :
        /\ TestFailedAfterBuild(r)
        /\ run[r].checks[5].message = Text("No tests found")
        /\ run[r].pc = "done"
        /\ HasCheck(r, "Groq Code Evaluation")
        /\ run[r].outcome.response.totalScore > 0

\* the points awarded before the quality evaluation ran
PointsBefore(chk) == IF Len(chk) >= 5 THEN chk[5].score ELSE 0

\* C6: in every response totalScore is within 0..20, and the score of the
\* quality evaluation, when there is one, is within 0..(20 - the points
\* awarded before it), whatever the endpoint replied.
C6_ScoreBounds ==
    \A r \in Slots :
        run[r].outcome.kind = "response" =>
            LET resp == run[r].outcome.response
                g == resp.details.groqEvaluation
            IN  /\ resp.totalScore >= 0
                /\ resp.totalScore <= 20
                /\ resp.maxScore = 20
                /\ g.present =>
                      /\ g.score >= 0
                      /\ g.score <= 20 - PointsBefore(resp.checks)
                      /\ resp.checks[Len(resp.checks)].score = g.score

\* a reply with a score text above the budget was clamped to it
C6_Witness ==
    \E r \in Slots :
        /\ run[r].pc = "done"
        /\ run[r].outcome.kind = "response"
        /\ run[r].outcome.response.details.groqEvaluation.present
        /\ run[r].outcome.response.details.groqEvaluation.score = 15
        /\ run[r].outcome.response.checks[5].score = 5
        /\ run[r].outcome.response.totalScore = 20

\* C7 as stated: after a call has ended, the workspace it cloned is gone.
C7_Original ==
    \A r \in Slots :
        run[r].pc = "done" /\ run[r].repoPath # Null => ~pathExists(fs, run[r].repoPath)

\* C7, amended: every end of a call (response or exception) goes through the
\* finally block; when cloneRepository returned a path, fs.remove of that path
\* is attempted exactly once before the call ends, and the workspace is gone
\* afterwards unless that removal itself failed; when it returned null nothing
\* is removed.
C7_CleanupOnEveryExit ==
    \A r \in Slots :
        /\ run[r].outcome.kind # "none" => Ended(r)
        /\ run[r].pc = "done" /\ run[r].repoPath # Null =>
              /\ run[r].cleanup \in {"removed", "failed"}
              /\ run[r].log[Len(run[r].log)] = "finally:fs.remove"
              /\ Cardinality({i \in 1..Len(run[r].log) : run[r].log[i] = "finally:fs.remove"}) = 1
              /\ run[r].cleanup = "removed" => ~pathExists(fs, run[r].repoPath)
        /\ run[r].pc = "done" /\ run[r].repoPath = Null =>
              /\ run[r].cleanup = "none"
              /\ ~Has(run[r].log, "finally:fs.remove")
        /\ run[r].pc = "finally" => run[r].repoPath # Null /\ run[r].cleanup = "none"

\* an exception after the clone, and the workspace removed
C7_Witness ==
    \E r \in Slots :
        /\ run[r].pc = "done"
        /\ run[r].outcome.kind = "InternalServerErrorException"
        /\ run[r].repoPath # Null
        /\ run[r].cleanup = "removed"
        /\ ~pathExists(fs, run[r].repoPath)

InFlight(r) == run[r].pc \notin {"idle", "done"}

\* C8: two calls that overlap never use the same workspace path.
C8_DistinctWorkspacePaths ==
    \A r1, r2 \in Slots :
        /\ r1 # r2
        /\ InFlight(r1) /\ InFlight(r2)
        /\ run[r1].clonePath # Null /\ run[r2].clonePath # Null
        => run[r1].clonePath # run[r2].clonePath

\* the evaluator was reached and the POST failed in transport, or its reply
\* had no message content
TransportFailed(r) ==
    \/ run[r].groq.transport \in {"network", "timeout", "status"}
    \/ run[r].groq.transport = "ok" /\ ~run[r].groq.hasContent

\* C9: when the POST to the endpoint fails in transport (or the reply has no
\* content), the call still returns a full response: six checks, totalScore
\* equal to the score of the Flutter Test check (5 when the tests passed), and
\* a quality-evaluation record with score 0 and a summary that starts with
\* 'Evaluation failed: '.
C9_TransportFailureDegrades ==
    \A r \in Slots :
        TransportFailed(r) =>
            LET resp == run[r].outcome.response
                g == resp.details.groqEvaluation
            IN  /\ Responded(r)
                /\ Len(resp.checks) = 6
                /\ resp.checks[5].name = "Flutter Test"
                /\ resp.checks[6].name = "Groq Code Evaluation"
                /\ resp.totalScore = resp.checks[5].score
                /\ resp.checks[5].passed => resp.totalScore = 5
                /\ ~resp.checks[5].passed => resp.totalScore = 0
                /\ resp.details.testsPassed = resp.checks[5].passed
                /\ resp.details.buildSuccessful
                /\ g.present
                /\ g.score = 0
                /\ Len(g.summary) = 2
                /\ g.summary[1] = "Evaluation failed: "
                /\ resp.summary = g.summary

C9_Witness ==
    \E r \in Slots :
        /\ run[r].pc = "done"
        /\ run[r].groq.transport = "network"
        /\ run[r].outcome.response.checks[5].passed
        /\ run[r].outcome.response.totalScore = 5
        /\ run[r].outcome.response.details.groqEvaluation.summary = <<"Evaluation failed: ", "network">>

KeyMessage == Text("Groq API key not configured. Please set GROQ_API_KEY environment variable.")

\* C10 as stated: with no credential configured, a call (here: one with an
\* accepted locator) never returns a grading result and ends with
\* InternalServerErrorException.
C10_Original ==
    \A r \in Slots :
        ~groqApiKey /\ run[r].pc = "done" /\ InAllowList(run[r].repoUrl) =>
            run[r].outcome.kind = "InternalServerErrorException"

\* C10, amended: with no credential configured, a call that reaches
\* evaluateWithGroq (every gate passed and at least one file was collected)
\* returns no response: it ends with the InternalServerErrorException thrown
\* by evaluateWithGroq, its message unchanged, without posting to the
\* endpoint, and the finally block still attempts to remove the workspace.
C10_MissingCredential ==
    \A r \in Slots :
        ~groqApiKey /\ Has(run[r].log, "evaluateWithGroq") =>
            /\ Ended(r)
            /\ run[r].outcome.kind = "InternalServerErrorException"
            /\ run[r].outcome.message = KeyMessage
            /\ run[r].outcome.response = NoResponse
            /\ ~Has(run[r].log, "axios.post")
            /\ run[r].groq.transport = "none"
            /\ ~HasCheck(r, "Groq Code Evaluation")
            /\ run[r].repoPath # Null
            /\ run[r].pc = "done" => run[r].cleanup \in {"removed", "failed"}

C10_Witness ==
    \E r \in Slots :
        /\ ~groqApiKey
        /\ run[r].pc = "done"
        /\ Has(run[r].log, "evaluateWithGroq")
        /\ run[r].outcome.kind = "InternalServerErrorException"
        /\ run[r].cleanup = "removed"

(***************************************************************************)
(* The split of the twenty points                                          *)
(***************************************************************************)
TestCheck(resp) == resp.checks[5]

GroqCheck(resp) == resp.checks[6]

\* C11 as stated: in every response the 'Flutter Test' score is 0 or 5 and
\* the 'Groq Code Evaluation' score never exceeds 15, whether or not the
\* tests passed.
C11_Original ==
    \A r \in Slots :
        run[r].outcome.kind = "response" =>
            LET resp == run[r].outcome.response
            IN  /\ Len(resp.checks) >= 5 => TestCheck(resp).score \in {0, 5}
                /\ Len(resp.checks) >= 6 => GroqCheck(resp).score <= 15

\* C11: in every response the 'Flutter Test' score is 5 when the tests passed
\* and 0 when they did not, and the 'Groq Code Evaluation' score never exceeds
\* what the test stage left of the twenty points: 15 after passing tests, 20
\* after failing ones.
C11_ScorePartition ==
    \A r \in Slots :
        run[r].outcome.kind = "response" =>
            LET resp == run[r].outcome.response
            IN  /\ Len(resp.checks) >= 5 =>
                      /\ TestCheck(resp).name = "Flutter Test"
                      /\ TestCheck(resp).score = IF TestCheck(resp).passed THEN 5 ELSE 0
                /\ Len(resp.checks) >= 6 =>
                      /\ GroqCheck(resp).name = "Groq Code Evaluation"
                      /\ GroqCheck(resp).score <= 20 - TestCheck(resp).score
                      /\ GroqCheck(resp).score <= IF TestCheck(resp).passed THEN 15 ELSE 20
                      /\ resp.totalScore = TestCheck(resp).score + GroqCheck(resp).score

\* the tests failed and the quality evaluation was awarded more than 15
C11_Witness ==
    \E r \in Slots :
        /\ run[r].pc = "done"
        /\ run[r].outcome.kind = "response"
        /\ Len(run[r].outcome.response.checks) = 6
        /\ ~TestCheck(run[r].outcome.response).passed
        /\ TestCheck(run[r].outcome.response).score = 0
        /\ GroqCheck(run[r].outcome.response).score = 20
        /\ run[r].groq.reply.score = <<"9", "9", "9">>

\* C12: a run that passes every gate and the tests, and whose endpoint
\* replies with a JSON object whose score is the ceiling given to the
\* evaluator (15) or above it, ends with totalScore exactly 20: 5 from the
\* tests and 15 from the quality evaluation.
C12_FullMarks ==
    \A r \in Slots :
        (/\ Ended(r)
         /\ Has(run[r].log, "axios.post")
         /\ run[r].raised = NoException
         /\ run[r].testResult.success
         /\ run[r].groq.reply.transport = "ok"
         /\ run[r].groq.reply.hasContent
         /\ run[r].groq.reply.json = "object"
         /\ run[r].groq.reply.summary # "nonstring"
         /\ run[r].groq.reply.recommendations # "nonstring"
         /\ run[r].groq.reply.score \in {<<"1", "5">>, <<"1", "6">>, <<"9", "9", "9">>})
        => /\ run[r].groq.remainingScore = 15
           /\ run[r].outcome.kind = "response"
           /\ run[r].outcome.response.totalScore = 20
           /\ TestCheck(run[r].outcome.response).score = 5
           /\ GroqCheck(run[r].outcome.response).score = 15
           /\ run[r].outcome.response.details.groqEvaluation.score = 15

\* the endpoint replied with exactly the ceiling, inside a code fence
C12_Witness ==
    \E r \in Slots :
        /\ run[r].pc = "done"
        /\ run[r].testResult.success
        /\ run[r].groq.reply.transport = "ok"
        /\ run[r].groq.reply.json = "object"
        /\ run[r].groq.reply.fenced
        /\ run[r].groq.reply.summary = "string"
        /\ run[r].groq.reply.score = <<"1", "5">>
        /\ run[r].outcome.kind = "response"
        /\ run[r].outcome.response.totalScore = 20

(***************************************************************************)
(* The evaluator's result                                                  *)
(***************************************************************************)
GotReply(r) == run[r].groq.reply # NoReply

WithinCaps(res) ==
    /\ res.summaryLen <= 300
    /\ res.recommendationsLen <= 200
    /\ Len(res.strengths) <= 5
    /\ Len(res.weaknesses) <= 5
    /\ \A i \in 1..Len(res.strengths) : res.strengths[i] <= 150
    /\ \A i \in 1..Len(res.weaknesses) : res.weaknesses[i] <= 150

\* C13: on every return path of the evaluator (JSON parsed, salvage after a
\* parse failure, failure of the POST or of the handling of its reply) the
\* summary of the result has at most 300 characters, the recommendation at
\* most 200, each item of strengths and weaknesses at most 150 and each list
\* at most 5 items, however long the reply or the error message was.
C13_LengthCaps ==
    \A r \in Slots : GotReply(r) => WithinCaps(run[r].groq.result)

\* the caps do hold on the paths that return what the endpoint's content held
C13_CapsOnContent ==
    \A r \in Slots :
        GotReply(r) /\ ~GroqBody(run[r].groq.reply, run[r].groq.remainingScore).threw
            => WithinCaps(run[r].groq.result)

\* a long reply went through the parsed path and was cut to the caps
C13_Witness ==
    \E r \in Slots :
        /\ run[r].pc = "done"
        /\ run[r].groq.reply.size = "long"
        /\ run[r].groq.reply.json = "object"
        /\ run[r].groq.result.summaryLen = 300
        /\ run[r].groq.result.recommendationsLen = 200
        /\ run[r].groq.result.strengths = <<150, 140, 150, 150, 150>>

(***************************************************************************)
(* Exceptions reaching the catch block of evaluate()                       *)
(***************************************************************************)
TypedKinds == {"BadRequestException", "InternalServerErrorException"}

\* the text t holds the text m
ContainsText(t, m) ==
    \E i \in 1..(Len(t) + 1) :
        /\ i + Len(m) - 1 <= Len(t)
        /\ SubSeq(t, i, i + Len(m) - 1) = m

\* C14: when a stage raises inside evaluate(), a BadRequestException or an
\* InternalServerErrorException leaves the call unchanged (same kind, same
\* message), any other exception leaves it as an InternalServerErrorException
\* whose message is 'Evaluation failed: ' followed by text holding the
\* original message, and in neither case does the call return a response; a
\* call ends with an exception only when one was raised.
C14_ExceptionHandling ==
    \A r \in Slots :
        /\ run[r].raised # NoException =>
              /\ Ended(r)
              /\ run[r].outcome.response = NoResponse
              /\ run[r].raised.kind \in TypedKinds =>
                    /\ run[r].outcome.kind = run[r].raised.kind
                    /\ run[r].outcome.message = run[r].raised.message
              /\ run[r].raised.kind \notin TypedKinds =>
                    /\ run[r].outcome.kind = "InternalServerErrorException"
                    /\ Len(run[r].outcome.message) >= 2
                    /\ Head(run[r].outcome.message) = "Evaluation failed: "
                    /\ ContainsText(Tail(run[r].outcome.message), run[r].raised.message)
        /\ Ended(r) /\ run[r].raised = NoException => run[r].outcome.kind = "response"

\* a stage raised an untyped error after some checks had been recorded, and
\* the call ended with the wrapped error and no response
C14_Witness ==
    \E r \in Slots :
        /\ run[r].pc = "done"
        /\ run[r].raised = [kind |-> "TypeError", message |-> Text("stage error")]
        /\ Len(run[r].checks) = 5
        /\ run[r].totalScore = 5
        /\ run[r].outcome.kind = "InternalServerErrorException"
        /\ run[r].outcome.message = <<"Evaluation failed: ">> \o Text("stage error")
        /\ run[r].outcome.response = NoResponse
        /\ run[r].cleanup = "removed"

(***************************************************************************)
(* The order of the stages                                                 *)
(***************************************************************************)
StageCalls ==
    <<"cloneRepository", "checkRequiredFiles", "runFlutterPubGet", "checkBuild",
      "runFlutterTest", "collectLibFiles", "evaluateWithGroq">>

CheckNames ==
    <<"Clone Repository", "Required Files Check", "Flutter Pub Get", "Build Check",
      "Flutter Test", "Groq Code Evaluation">>

IsStageCall(e) == \E i \in 1..Len(StageCalls) : StageCalls[i] = e

\* the stages a run has started, in the order it started them
StageLog(lg) == SelectSeq(lg, IsStageCall)

IsPrefix(a, b) == Len(a) <= Len(b) /\ a = SubSeq(b, 1, Len(a))

NamesOf(chk) == [i \in 1..Len(chk) |-> chk[i].name]

\* the stage a run is waiting for at each position
StageAt(pc) ==
    CASE pc \in {"clone_exists", "clone_remove", "clone_git"} -> "cloneRepository"
      [] pc = "files" -> "checkRequiredFiles"
      [] pc = "pubget" -> "runFlutterPubGet"
      [] pc = "build" -> "checkBuild"
      [] pc = "test" -> "runFlutterTest"
      [] pc = "collect" -> "collectLibFiles"
      [] pc = "groq" -> "evaluateWithGroq"
      [] OTHER -> "none"

\* C15: within one run the stages start in the order clone, required files,
\* install, build, test, collect, quality evaluation, each once; while the
\* run waits, it waits for the stage started last and every stage before it
\* has completed (its check is recorded); the checks of the run, and of every
\* response, are a prefix of the six check names in their order.
C15_StageOrder ==
    \A r \in Slots :
        LET started == StageLog(run[r].log)
        IN  /\ IsPrefix(started, StageCalls)
            /\ IsPrefix(NamesOf(run[r].checks), CheckNames)
            /\ StageAt(run[r].pc) # "none" =>
                  /\ started # <<>>
                  /\ started[Len(started)] = StageAt(run[r].pc)
                  /\ Len(run[r].checks) = Min(Len(started) - 1, 5)
            /\ run[r].outcome.kind = "response" =>
                  /\ run[r].outcome.response.checks = run[r].checks
                  /\ run[r].outcome.response.checks # <<>>
                  /\ IsPrefix(NamesOf(run[r].outcome.response.checks), CheckNames)

\* a run went through all seven stages and answered with all six checks
C15_Witness ==
    \E r \in Slots :
        /\ run[r].pc = "done"
        /\ StageLog(run[r].log) = StageCalls
        /\ run[r].outcome.kind = "response"
        /\ NamesOf(run[r].outcome.response.checks) = CheckNames

(***************************************************************************)
(* Termination                                                             *)
(***************************************************************************)
\* C16: every operation that leaves the process (the clone, each flutter
\* command, the POST) is ended by a timeout, so every call that has started
\* eventually ends, with a response or an error and with its cleanup done,
\* even if an external operation never responds.
C16_Termination ==
    \A r \in Slots : (run[r].pc # "idle") ~> (run[r].pc = "done")

\* once the clone has resolved the call does end: every later operation
\* carries a timeout
C16_TerminationAfterClone ==
    \A r \in Slots :
        (run[r].pc \in {"files", "pubget", "build", "test", "collect", "groq", "finally"})
            ~> (run[r].pc = "done")

\* the operations that carry no timeout
C16_Unbounded == {op \in DOMAIN TimeoutOf : ~Expires(op)}

(***************************************************************************)
(* The evaluator never raises on a reply                                   *)
(***************************************************************************)
\* the replies whose handling throws inside the try block of evaluateWithGroq
ReplyThrows(reply) ==
    \/ reply.transport # "ok"
    \/ ~reply.hasContent
    \/ reply.json \in {"null", "notText"}
    \/ /\ reply.json = "object"
       /\ reply.summary = "nonstring" \/ reply.recommendations = "nonstring"

\* the replies that JSON.parse rejects
ReplySalvaged(reply) ==
    reply.transport = "ok" /\ reply.hasContent /\ reply.json = "invalid"

\* C17: the evaluator raises into evaluate() only when the credential is
\* missing.  Whatever the endpoint replied (text that is no JSON, fenced
\* JSON, JSON null, a JSON value of the wrong shape, no content, a failed
\* POST), the call returns a response, and the evaluator's result has a
\* score within 0..maxAvailableScore and a summary: the clamped score of the
\* parsed JSON; failing the parse, the clamped score found in the text, or 0
\* when none is found; and score 0 with an 'Evaluation failed: ' summary when
\* the handling of the reply threw.
C17_EvaluatorNeverRaisesOnReply ==
    \A r \in Slots :
        /\ (Has(run[r].log, "evaluateWithGroq") /\ run[r].raised # NoException) =>
              /\ ~groqApiKey
              /\ ~Has(run[r].log, "axios.post")
              /\ run[r].raised = [kind |-> "InternalServerErrorException", message |-> KeyMessage]
        /\ GotReply(r) =>
              LET reply == run[r].groq.reply
                  res == run[r].groq.result
                  max == run[r].groq.remainingScore
              IN  /\ Responded(r)
                  /\ ~res.raises
                  /\ res.score \in 0..max
                  /\ res.summary # <<>>
                  /\ run[r].outcome.response.details.groqEvaluation.present
                  /\ run[r].outcome.response.details.groqEvaluation.score = res.score
                  /\ ReplyThrows(reply) =>
                        /\ res.score = 0
                        /\ Head(res.summary) = "Evaluation failed: "
                        /\ res.strengths = <<>> /\ res.weaknesses = <<>>
                  /\ ReplySalvaged(reply) =>
                        /\ res.summary = Text("raw content")
                        /\ reply.salvage = Null => res.score = 0
                        /\ reply.salvage = <<"7">> => res.score = 7
                        /\ reply.salvage = <<"9", "9">> => res.score = max
                  /\ (~ReplyThrows(reply) /\ ~ReplySalvaged(reply)) =>
                        /\ Head(res.summary) # "Evaluation failed: "
                        /\ (reply.json = "object" /\ reply.score = <<"1", "5">>) => res.score = 15
                        /\ (reply.json = "object" /\ reply.score = <<"-", "3">>) => res.score = 0
                        /\ (reply.json = "object" /\ reply.score = <<"a", "b", "c">>) => res.score = 0
                        /\ reply.json = "primitive" => res.score = 0

\* the endpoint replied with JSON null: the call still answered, with a
\* zero-score quality evaluation
C17_Witness ==
    \E r \in Slots :
        /\ run[r].pc = "done"
        /\ groqApiKey
        /\ run[r].groq.reply.transport = "ok"
        /\ run[r].groq.reply.json = "null"
        /\ run[r].outcome.kind = "response"
        /\ run[r].groq.result.score = 0
        /\ Head(run[r].groq.result.summary) = "Evaluation failed: "
        /\ Len(run[r].outcome.response.checks) = 6

(***************************************************************************)
(* The install stage                                                       *)
(***************************************************************************)
InstallRan(r) == run[r].lastExec.cmd = "flutter pub get"

InstallPassed(r) ==
    \E i \in 1..Len(run[r].checks) :
        run[r].checks[i].name = "Flutter Pub Get" /\ run[r].checks[i].passed

\* C18: the install stage fails whenever the stderr of flutter pub get is
\* not empty and is not made of warning text only (so also when it holds an
\* error line next to a warning line), and succeeds otherwise when the
\* command ends normally.
C18_InstallHeuristic ==
    \A r \in Slots :
        (InstallRan(r) /\ ~run[r].lastExec.threw) =>
            (InstallPassed(r) <=> run[r].lastExec.stderr \subseteq {"Warning"})

\* what the stage does: it passes iff the command ended normally with a
\* stderr that is empty or holds the word 'Warning' somewhere
C18_InstallAsCoded ==
    \A r \in Slots :
        InstallRan(r) =>
            (InstallPassed(r) <=>
                /\ ~run[r].lastExec.threw
                /\ run[r].lastExec.stderr = {} \/ "Warning" \in run[r].lastExec.stderr)

\* stderr held an error line next to a warning line and the stage passed
C18_Witness ==
    \E r \in Slots :
        /\ run[r].pc = "build"
        /\ InstallRan(r)
        /\ run[r].lastExec.stderr = {"Warning", "error"}
        /\ InstallPassed(r)

(***************************************************************************)
(* The build stage                                                         *)
(***************************************************************************)
BuildRan(r) == run[r].lastExec.cmd = "flutter analyze"

BuildPassed(r) ==
    \E i \in 1..Len(run[r].checks) :
        run[r].checks[i].name = "Build Check" /\ run[r].checks[i].passed

\* the output of flutter analyze names an error and no info-level finding
ClassifiedAsErrors(a) ==
    /\ a.stderrError \/ a.stdoutError
    /\ ~a.stderrInfo
    /\ ~a.stdoutInfo

\* C19: in the build stage flutter build is attempted if and only if flutter
\* analyze failed to execute (it threw: non-zero exit or timeout); then the
\* stage fails only when flutter build failed too, and passes when flutter
\* build succeeded; when flutter analyze executed, the stage fails exactly
\* when its output is classified as holding errors, and flutter build is not
\* attempted.
C19_BuildFallback ==
    \A r \in Slots :
        BuildRan(r) =>
            LET ex == run[r].lastExec
            IN  /\ HasCheck(r, "Build Check")
                /\ Has(run[r].log, "flutter build") <=> ex.threw
                /\ ex.threw => (BuildPassed(r) <=> ~ex.buildThrew)
                /\ ~ex.threw =>
                      /\ BuildPassed(r) <=> ~ClassifiedAsErrors(ex.analyze)
                      /\ ~ex.buildThrew
                /\ ~BuildPassed(r) =>
                      /\ Responded(r)
                      /\ run[r].outcome.response.totalScore = 5
                      /\ ~Has(run[r].log, "runFlutterTest")

\* flutter analyze threw, flutter build succeeded, and the stage passed
C19_Witness ==
    \E r \in Slots :
        /\ run[r].pc = "test"
        /\ BuildRan(r)
        /\ run[r].lastExec.threw
        /\ ~run[r].lastExec.buildThrew
        /\ Has(run[r].log, "flutter build")
        /\ BuildPassed(r)

\* flutter analyze executed and reported errors: the stage failed without
\* flutter build being attempted
C19_WitnessErrors ==
    \E r \in Slots :
        /\ run[r].pc = "done"
        /\ BuildRan(r)
        /\ ~run[r].lastExec.threw
        /\ run[r].lastExec.analyze.stdoutError
        /\ ~Has(run[r].log, "flutter build")
        /\ ~BuildPassed(r)

(***************************************************************************)
(* Nothing collected                                                       *)
(***************************************************************************)
LlmCalls == {"evaluateWithGroq", "configService.get", "axios.post"}

\* collectLibFiles has resolved
Collected(r) ==
    /\ Has(run[r].log, "collectLibFiles")
    /\ run[r].pc # "collect"

\* C20: when every gate has passed and collectLibFiles returns nothing (lib
\* holds no readable .dart file, or cannot be walked), the call returns a
\* response whose totalScore is the score of the test stage, with five checks
\* and no quality evaluation; evaluateWithGroq is not called, so the
\* credential is not read and nothing is posted.
C20_EmptyCollection ==
    \A r \in Slots :
        /\ (Collected(r) /\ run[r].libFiles = 0) =>
              /\ Responded(r)
              /\ run[r].outcome.response.totalScore = TestCheck(run[r].outcome.response).score
              /\ run[r].outcome.response.totalScore = TestScore(run[r].testResult)
              /\ NamesOf(run[r].outcome.response.checks) = SubSeq(CheckNames, 1, 5)
              /\ run[r].outcome.response.details.groqEvaluation = NoGroqEvaluation
              /\ \A i \in 1..Len(run[r].log) : run[r].log[i] \notin LlmCalls
              /\ ~GotReply(r)
        /\ (/\ Collected(r)
            /\ run[r].pc = "finally"
            /\ WorkspacePresent(r)
            /\ WorkspaceContent(r).mainDart # "file") => run[r].libFiles = 0

\* no credential is configured, lib/main.dart exists but is no regular file:
\* the call answered with the test points and never read the credential
C20_Witness ==
    \E r \in Slots :
        /\ run[r].pc = "finally"
        /\ ~groqApiKey
        /\ WorkspacePresent(r)
        /\ WorkspaceContent(r).mainDart = "special"
        /\ Collected(r)
        /\ run[r].libFiles = 0
        /\ run[r].outcome.kind = "response"
        /\ run[r].outcome.response.totalScore = 5
        /\ ~Has(run[r].log, "configService.get")

(***************************************************************************)
(* The accumulated score and the checks during a run                       *)
(***************************************************************************)
\* one step of a call: its score does not go down and its checks only grow
\* at the end
ScoreAndChecksStep(r) ==
    LET before == run[r]
        after == run'[r]
        gain == after.totalScore - before.totalScore
    IN  /\ gain >= 0
        /\ IsPrefix(before.checks, after.checks)
        /\ Len(after.checks) <= Len(before.checks) + 1
        /\ gain > 0 =>
              /\ Len(after.checks) = Len(before.checks) + 1
              /\ LET entry == after.checks[Len(after.checks)]
                 IN  /\ entry.score = gain
                     /\ entry.passed
                     /\ \/ entry.name = "Flutter Test" /\ gain = 5
                        \/ /\ entry.name = "Groq Code Evaluation"
                           /\ gain <= 20 - before.totalScore
        /\ after.outcome.kind = "response" => after.outcome.response.checks = after.checks

\* C21: in every step of a run the accumulated score stays or grows, never
\* shrinks; it grows only by the 5 points of passing tests and then by the
\* clamped quality score; the checks list only grows by one entry at its end,
\* no entry being removed, moved or changed, and the response carries that
\* list.
C21_ScoreMonotone == [][\A r \in Slots : ScoreAndChecksStep(r)]_vars

\* a run gained the test points and then seven quality points
C21_Witness ==
    \E r \in Slots :
        /\ run[r].pc = "finally"
        /\ run[r].totalScore = 12
        /\ Len(run[r].checks) = 6
        /\ run[r].checks[5].score = 5
        /\ run[r].checks[6].score = 7
        /\ run[r].outcome.kind = "response"

(***************************************************************************)
(* The flags of details                                                    *)
(***************************************************************************)
\* the passed value of the check of that name in a list; false when absent
PassedIn(chk, n) == \E i \in 1..Len(chk) : chk[i].name = n /\ chk[i].passed

\* C22: in every response each flag of details is the passed value of the
\* check it stands for (false when that check is absent), and the flags are
\* prefix-closed: buildSuccessful implies pubGetSuccessful implies filesValid
\* implies cloneSuccessful, and testsPassed, or a quality evaluation being
\* present, implies buildSuccessful.
C22_DetailsMatchChecks ==
    \A r \in Slots :
        run[r].outcome.kind = "response" =>
            LET resp == run[r].outcome.response
                d == resp.details
            IN  /\ d.cloneSuccessful = PassedIn(resp.checks, "Clone Repository")
                /\ d.filesValid = PassedIn(resp.checks, "Required Files Check")
                /\ d.pubGetSuccessful = PassedIn(resp.checks, "Flutter Pub Get")
                /\ d.buildSuccessful = PassedIn(resp.checks, "Build Check")
                /\ d.testsPassed = PassedIn(resp.checks, "Flutter Test")
                /\ d.groqEvaluation.present = PassedIn(resp.checks, "Groq Code Evaluation")
                /\ d.buildSuccessful => d.pubGetSuccessful
                /\ d.pubGetSuccessful => d.filesValid
                /\ d.filesValid => d.cloneSuccessful
                /\ d.testsPassed => d.buildSuccessful
                /\ d.groqEvaluation.present => d.buildSuccessful

\* the build check failed after a successful install: the flags say so
C22_Witness ==
    \E r \in Slots :
        /\ run[r].pc = "done"
        /\ run[r].outcome.kind = "response"
        /\ Len(run[r].outcome.response.checks) = 4
        /\ ~run[r].outcome.response.checks[4].passed
        /\ run[r].outcome.response.details.pubGetSuccessful
        /\ ~run[r].outcome.response.details.buildSuccessful
        /\ ~run[r].outcome.response.details.testsPassed

(***************************************************************************)
(* The total and the scores of the checks                                  *)
(***************************************************************************)
RECURSIVE SumScores(_)
SumScores(chk) == IF chk = <<>> THEN 0 ELSE Head(chk).score + SumScores(Tail(chk))

\* C23: in every response returned after the build stage succeeded,
\* totalScore is the sum of the scores of the entries of checks, and the
\* score of details.groqEvaluation, when there is one, is the score of the
\* 'Groq Code Evaluation' check.
C23_TotalIsSumOfChecks ==
    \A r \in Slots :
        (run[r].outcome.kind = "response"
            /\ PassedIn(run[r].outcome.response.checks, "Build Check")) =>
            LET resp == run[r].outcome.response
            IN  /\ resp.totalScore = SumScores(resp.checks)
                /\ resp.details.groqEvaluation.present =>
                      /\ Len(resp.checks) = 6
                      /\ resp.checks[6].name = "Groq Code Evaluation"
                      /\ resp.details.groqEvaluation.score = resp.checks[6].score

\* the tests failed and the quality evaluation gave 16: the total is 16
C23_Witness ==
    \E r \in Slots :
        /\ run[r].pc = "done"
        /\ run[r].outcome.kind = "response"
        /\ PassedIn(run[r].outcome.response.checks, "Build Check")
        /\ ~PassedIn(run[r].outcome.response.checks, "Flutter Test")
        /\ run[r].outcome.response.details.groqEvaluation.present
        /\ run[r].outcome.response.details.groqEvaluation.score = 16
        /\ run[r].outcome.response.totalScore = 16

(***************************************************************************)
(* A failing cleanup                                                       *)
(***************************************************************************)
IsCleanupCall(e) == e = "finally:fs.remove"

\* one step of a call: an outcome once decided stays, and after the step the
\* cleanup has been attempted at most once, only for a path that a
\* successful clone returned, and only after the outcome was decided
CleanupStep(r) ==
    LET before == run[r]
        after == run'[r]
    IN  /\ before.outcome # NoOutcome => after.outcome = before.outcome
        /\ (before.cleanup = "none" /\ after.cleanup = "failed") =>
              /\ before.pc = "finally"
              /\ after.pc = "done"
              /\ before.outcome # NoOutcome
              /\ after.outcome = before.outcome
              /\ fs' = fs
        /\ Len(SelectSeq(after.log, IsCleanupCall)) <= 1
        /\ (after.cleanup # "none") <=> Has(after.log, "finally:fs.remove")
        /\ Has(after.log, "finally:fs.remove") =>
              /\ after.repoPath # Null
              /\ after.repoPath = after.clonePath
              /\ PassedIn(after.checks, "Clone Repository")
              /\ after.outcome # NoOutcome

\* C24: a failure of the removal in the finally block never changes the
\* outcome of the run: the response or the exception decided before it is
\* what the call delivers; the removal is attempted at most once in a run,
\* and only when cloneRepository had returned a path.
C24_CleanupFailureHarmless == [][\A r \in Slots : CleanupStep(r)]_vars

\* the removal failed after the credential check had thrown: the call still
\* ends with that exception
C24_Witness ==
    \E r \in Slots :
        /\ run[r].pc = "done"
        /\ run[r].cleanup = "failed"
        /\ run[r].outcome.kind = "InternalServerErrorException"
        /\ run[r].outcome.message = KeyMessage
        /\ pathExists(fs, run[r].repoPath)

====
